---------------------------- MODULE Spec2Model ----------------------------
(***************************************************************************)
(* A model of arm-wchar-tag.c: the tool that reports, and optionally       *)
(* patches in place, Tag_ABI_PCS_wchar_t in the ARM attributes sections of *)
(* a 32-bit ARM ELF file.                                                  *)
(*                                                                         *)
(* The file is a sequence of bytes behind one file descriptor with one     *)
(* offset.  The ELF header and the section header table are kept as        *)
(* records (their fields are what the code reads out of them); the bytes   *)
(* after the table are the section data the walker and the dispatcher      *)
(* decode byte by byte.  A read at or past the end of the file is a short  *)
(* read.                                                                   *)
(*                                                                         *)
(* Types: the model is an LP64 little-endian build (off_t, size_t and      *)
(* unsigned long are 64 bits, Elf32_Word is 32 bits), so no sum of the     *)
(* code's cursors overflows.  An unsigned long is kept as the set of its   *)
(* one-bits (0..63), which is exact for |=, the comparisons and the        *)
(* parity test the code makes.  Whether plain char is signed depends on    *)
(* the build (signed on x86-64, unsigned on AArch64): the build is an      *)
(* input.                                                                  *)
(***************************************************************************)
EXTENDS Integers, Sequences, FiniteSets, TLC

----------------------------------------------------------------------------
(* Program constants *)

\* sizeof(Elf32_Ehdr), read at the start of parse
EhdrSize == 52
\* sizeof(Elf32_Shdr), the section header entry size
ShdrSize == 40
\* sizeof(subsect_size), the 4-byte subsection length field
WordSize == 4
\* sizeof(vendor_name)
VendorNameSize == 128
\* sizeof(buf) in the dispatcher
BufSize == 1024
\* the format version byte 'A'
VersionA == 65
\* Tag_ABI_PCS_wchar_t
TagWchar == 18
\* the largest value of a one-byte ULEB128
MaxOneByte == 127

\* "aeabi"
AeabiName == <<97, 101, 97, 98, 105>>

----------------------------------------------------------------------------
(* Bytes, and unsigned long values as sets of one-bits *)

Pow2(n) == 2 ^ n

\* the one-bits of a byte
BitsOf(n) == {i \in 0..7 : (n \div Pow2(i)) % 2 = 1}

\* the number a set of bits below 31 stands for
RECURSIVE NatOf(_)
NatOf(bits) ==
    IF bits = {} THEN 0
    ELSE LET b == CHOOSE x \in bits : TRUE
         IN Pow2(b) + NatOf(bits \ {b})

\* value > n for an unsigned long kept as bits, n below 2^31
GreaterThan(bits, n) ==
    \/ \E b \in bits : b > 30
    \/ NatOf(bits) > n

\* the byte at absolute offset o of file f, or -1 at end of file
ByteAt(f, o) ==
    LET k == o - f.base + 1
    IN IF k \in 1..Len(f.bytes) THEN f.bytes[k] ELSE -1

\* the file with the byte at absolute offset o replaced
WithByte(f, o, b) ==
    [f EXCEPT !.bytes[o - f.base + 1] = b]

----------------------------------------------------------------------------
(* parse_uleb128 *)

\* the outcomes of an undefined int shift: the machine's (count taken mod
\* 32, bits wrapped) or nothing contributed
UBOutcomes == {"wrap", "zero"}

\* (byte & 0x7f) << shift, computed in int and converted to unsigned long:
\* exact while the product fits an int; beyond that the shift is undefined
\* and ub names the outcome
ShiftContribution(byte, shift, ub) ==
    LET v7 == BitsOf(byte % 128)
        defined == shift < 32 /\ \A i \in v7 : i + shift < 31
        s == shift % 32
        low == {i + s : i \in {j \in v7 : j + s <= 31}}
    IN IF defined THEN {i + shift : i \in v7}
       ELSE IF ub = "zero" THEN {}
       ELSE IF 31 \in low THEN low \cup (32..63) ELSE low

\* the while loop of parse_uleb128 from one evaluation of its condition on:
\* returns the return code, the cursor, the file offset and *result
RECURSIVE UlebLoop(_, _, _, _, _, _, _)
UlebLoop(f, off, pos, size, shift, result, ub) ==
    IF ~(pos < size)
    THEN [ret |-> 0, err |-> "", pos |-> pos, off |-> off, result |-> result]
    ELSE LET byte == ByteAt(f, off) IN
         IF byte = -1
         THEN [ret |-> 1, err |-> "reading ULEB128", pos |-> pos, off |-> off,
               result |-> result]
         ELSE LET r1 == result \cup ShiftContribution(byte, shift, ub) IN
              IF byte < 128
              THEN [ret |-> 0, err |-> "", pos |-> pos + 1, off |-> off + 1,
                    result |-> r1]
              ELSE IF pos + 1 >= size
              THEN [ret |-> 1, err |-> "Unterminated ULEB128", pos |-> pos + 1,
                    off |-> off + 1, result |-> r1]
              ELSE UlebLoop(f, off + 1, pos + 1, size, shift + 7, r1, ub)

parse_uleb128(f, off, pos, size, ub) ==
    UlebLoop(f, off, pos, size, 0, {}, ub)

----------------------------------------------------------------------------
(* parse_ntbs *)

\* the while loop of parse_ntbs; i counts the bytes consumed and stored
\* holds the bytes written to result (none when result is NULL: K = 0)
RECURSIVE NtbsLoop(_, _, _, _, _, _, _)
NtbsLoop(f, off, pos, size, K, i, stored) ==
    IF ~(pos < size)
    THEN [ret |-> 0, err |-> "", pos |-> pos, off |-> off, stored |-> stored]
    ELSE LET byte == ByteAt(f, off) IN
         IF byte = -1
         THEN [ret |-> 1, err |-> "skipping NTBS", pos |-> pos, off |-> off,
               stored |-> stored]
         ELSE LET st1 == IF K > 0 /\ i < K THEN Append(stored, byte) ELSE stored IN
              IF byte = 0
              THEN [ret |-> 0, err |-> "", pos |-> pos + 1, off |-> off + 1,
                    stored |-> st1]
              ELSE IF pos + 1 >= size
              THEN [ret |-> 1, err |-> "Unterminated NTBS", pos |-> pos + 1,
                    off |-> off + 1, stored |-> st1]
              ELSE NtbsLoop(f, off + 1, pos + 1, size, K, i + 1, st1)

\* parse_ntbs with a result buffer of K bytes (K = 0: result is NULL).
\* stored are the leading bytes of result the loop wrote; on success
\* result[K-1] is then set to 0, the bytes between stay uninitialised
parse_ntbs(f, off, pos, size, K) ==
    NtbsLoop(f, off, pos, size, K, 0, <<>>)

\* the C string in a result buffer of K bytes after a successful parse_ntbs:
\* up to the first 0 stored, or the K-1 leading bytes when the loop filled
\* the buffer; <<-1>> when the loop stored nothing and the bytes before
\* result[K-1] are uninitialised
CString(stored, K) ==
    IF \E k \in 1..Len(stored) : stored[k] = 0
    THEN LET z == CHOOSE k \in 1..Len(stored) :
                     stored[k] = 0 /\ \A j \in 1..(k - 1) : stored[j] # 0
         IN SubSeq(stored, 1, z - 1)
    ELSE IF Len(stored) = K \/ K = 1 THEN SubSeq(stored, 1, K - 1)
    ELSE <<-1>>

----------------------------------------------------------------------------
(* The program state *)

VARIABLES
    build,        \* the build: whether plain char is unsigned
    arg,          \* argv[2]: "none", "bad" (no integer) or the integer
    opened,       \* whether process has opened the file
    file,         \* the file's section data: [base, bytes]
    ehdr,         \* the ELF header's fields
    shdrs,        \* the section header table
    off,          \* the file descriptor's offset
    pc,           \* where the program is
    wchar_size,   \* the char handed to the parsers
    i,            \* parse: index of the next section header
    current_pos,  \* parse: the offset saved before a section is walked
    sh_size,      \* parse_eabi_attr_section: the section's size
    pos,          \* parse_eabi_attr_section: the cursor within the section
    subsect_size, \* the current subsection's declared length
    spos,         \* the cursor within the current subsection
    vendor_name,  \* the string in vendor_name, <<-1>> while not written
    status,       \* the exit status, -1 while the program runs
    out,          \* what the program printed in this run
    writes,       \* the writes of this run: offset, byte, the record patched
    stepReads,    \* the file offsets the last step read
    ulebCalls,    \* the calls of parse_uleb128 the last step made
    run,          \* the number of the run (a later run works on the file
                  \* the run before left)
    prev,         \* the run before: its argument, files, output and status
    unit          \* a call of parse_uleb128 or parse_ntbs on its own: its
                  \* arguments and, once made, what it gave

vars == <<build, arg, opened, file, ehdr, shdrs, off, pc, wchar_size, i,
          current_pos, sh_size, pos, subsect_size, spos, vendor_name, status,
          out, writes, stepReads, ulebCalls, run, prev, unit>>

\* printf of the tag's value
ValueEvent(v) == [kind |-> "value", msg |-> "Tag_ABI_PCS_wchar_t", val |-> v]
\* printf(", patched to %d")
PatchedEvent(w) == [kind |-> "patched", msg |-> "patched to", val |-> {w}]
\* printf("Error: ...") or perror
ErrorEvent(m) == [kind |-> "error", msg |-> m, val |-> {}]

\* (char)n on the build: n reduced to 8 bits, read as signed or unsigned
ToChar(n, unsigned) ==
    LET m == n % 256
    IN IF ~unsigned /\ m >= 128 THEN m - 256 ELSE m

\* the record of one call of parse_uleb128 at offset o with cursor p
UlebCall(f, o, p, size, r) ==
    [pos |-> p, size |-> size, ret |-> r.ret, consumed |-> r.off - o,
     terminated |-> r.off > o /\ ByteAt(f, r.off - 1) < 128]

----------------------------------------------------------------------------
(* main, process and parse *)

NoArg == [kind |-> "none", n |-> 0]
BadArg == [kind |-> "bad", n |-> 0]
IntArg(n) == [kind |-> "int", n |-> n]

\* a return of 1 handed up to main: the message printed, the exit status
Fail(msg) ==
    /\ out' = Append(out, ErrorEvent(msg))
    /\ status' = 1
    /\ pc' = "exit"

\* main: the argument is parsed and checked, then process is called
Main ==
    /\ pc = "main"
    /\ IF arg.kind = "bad"
       THEN Fail("Invalid Tag_ABI_PCS_wchar_t value") /\ UNCHANGED wchar_size
       ELSE IF arg.kind = "int" /\ arg.n > MaxOneByte
       THEN Fail("We do not support patching with TAG_ABI_PCS_wchar_t greater than 0x7f")
            /\ UNCHANGED wchar_size
       ELSE /\ wchar_size' = ToChar(IF arg.kind = "int" THEN arg.n ELSE -1,
                                    build.char_unsigned)
            /\ pc' = "process"
            /\ UNCHANGED <<out, status>>
    /\ stepReads' = {}
    /\ ulebCalls' = <<>>
    /\ UNCHANGED <<vendor_name, build, arg, opened, file, ehdr, shdrs, off, i, current_pos,
                   sh_size, pos, subsect_size, spos, writes, run, prev, unit>>

\* process opens the file; parse reads the ELF header, checks it and seeks
\* to the section header table
Process ==
    /\ pc = "process"
    /\ opened' = TRUE
    /\ IF ~ehdr.complete
       THEN Fail("reading ELf32_Ehdr") /\ UNCHANGED <<off, i>>
       ELSE IF ~ehdr.magic_ok
       THEN Fail("Invalid ELF magic") /\ off' = EhdrSize /\ UNCHANGED i
       ELSE IF ~ehdr.machine_arm
       THEN Fail("Not an ARM ELF file") /\ off' = EhdrSize /\ UNCHANGED i
       ELSE IF ehdr.e_shoff = 0
       THEN Fail("ELF file has no section table") /\ off' = EhdrSize /\ UNCHANGED i
       ELSE IF ehdr.e_shentsize # ShdrSize
       THEN Fail("Section header entry size doesn't match") /\ off' = EhdrSize
            /\ UNCHANGED i
       ELSE /\ off' = ehdr.e_shoff
            /\ i' = 0
            /\ pc' = "shdr"
            /\ UNCHANGED <<out, status>>
    /\ stepReads' = {}
    /\ ulebCalls' = <<>>
    /\ UNCHANGED <<vendor_name, build, arg, file, ehdr, shdrs, wchar_size, current_pos,
                   sh_size, pos, subsect_size, spos, writes, run, prev, unit>>

\* the section header a read of sizeof(Elf32_Shdr) bytes at offset o gives:
\* the table starts right after the ELF header; a read that does not lie in
\* it is short
ShdrAt(o) ==
    LET k == (o - EhdrSize) \div ShdrSize + 1
    IN IF o >= EhdrSize /\ (o - EhdrSize) % ShdrSize = 0 /\ k \in 1..Len(shdrs)
       THEN shdrs[k]
       ELSE [sh_type |-> "short", sh_offset |-> 0, sh_size |-> 0]

\* parse, one turn of the for loop: the next section header is read; a
\* section of another type is passed over, before an attributes section the
\* offset is saved and the section's offset sought
ReadShdr ==
    /\ pc = "shdr"
    /\ i < ehdr.e_shnum
    /\ LET shdr == ShdrAt(off) IN
       IF shdr.sh_type = "short"
       THEN Fail("reading Elf32_Shdr")
            /\ UNCHANGED <<off, i, current_pos, sh_size>>
       ELSE IF shdr.sh_type # "SHT_ARM_ATTRIBUTES"
       THEN /\ off' = off + ShdrSize
            /\ i' = i + 1
            /\ UNCHANGED <<pc, out, status, current_pos, sh_size>>
       ELSE /\ current_pos' = off + ShdrSize
            /\ off' = shdr.sh_offset
            /\ sh_size' = shdr.sh_size
            /\ pc' = "section"
            /\ UNCHANGED <<i, out, status>>
    /\ stepReads' = {}
    /\ ulebCalls' = <<>>
    /\ UNCHANGED <<vendor_name, build, arg, opened, file, ehdr, shdrs, wchar_size, pos,
                   subsect_size, spos, writes, run, prev, unit>>

\* parse: the for loop has passed the last header, parse returns 0 and
\* process closes the file
ParseDone ==
    /\ pc = "shdr"
    /\ ~(i < ehdr.e_shnum)
    /\ status' = 0
    /\ pc' = "exit"
    /\ stepReads' = {}
    /\ ulebCalls' = <<>>
    /\ UNCHANGED <<vendor_name, build, arg, opened, file, ehdr, shdrs, off, wchar_size, i,
                   current_pos, sh_size, pos, subsect_size, spos, out, writes,
                   run, prev, unit>>

----------------------------------------------------------------------------
(* parse_eabi_attr_section *)

\* a value no size of the model reaches: a length field of 2^30 or more is
\* kept as this value (it is only ever compared with the section size)
HugeWord == Pow2(30)

\* the Elf32_Word in the four bytes at offset o, little-endian
WordAt(f, o) ==
    IF ByteAt(f, o + 3) >= 64 THEN HugeWord
    ELSE ByteAt(f, o) + 256 * ByteAt(f, o + 1) + 65536 * ByteAt(f, o + 2)
         + 16777216 * ByteAt(f, o + 3)

\* the number of bytes a read of n bytes at offset o gets
Available(f, o, n) == Cardinality({k \in 0..(n - 1) : ByteAt(f, o + k) # -1})

\* the entry of parse_eabi_attr_section: the size test (which prints and goes
\* on), the version byte and its test
SectionStart ==
    /\ pc = "section"
    /\ LET out1 == IF sh_size < 1
                   THEN Append(out, ErrorEvent("Empty ARM attributes section"))
                   ELSE out
           version == ByteAt(file, off)
       IN IF version = -1
          THEN /\ out' = Append(out1, ErrorEvent("reading version"))
               /\ status' = 1
               /\ pc' = "exit"
               /\ stepReads' = {}
               /\ UNCHANGED <<off, pos>>
          ELSE IF version # VersionA
          THEN /\ out' = Append(out1, ErrorEvent("Unknown ARM attribute section format version"))
               /\ status' = 1
               /\ pc' = "exit"
               /\ off' = off + 1
               /\ stepReads' = {off}
               /\ UNCHANGED pos
          ELSE /\ out' = out1
               /\ off' = off + 1
               /\ pos' = 1
               /\ pc' = "walker"
               /\ stepReads' = {off}
               /\ UNCHANGED status
    /\ ulebCalls' = <<>>
    /\ UNCHANGED <<vendor_name, build, arg, opened, file, ehdr, shdrs, wchar_size, i,
                   current_pos, sh_size, subsect_size, spos, writes, run, prev, unit>>

\* whether strcmp(vendor_name, "aeabi") == 0: garbage tells what the
\* comparison gives when vendor_name was never written
IsAeabi(stored, garbage) ==
    LET name == CString(stored, VendorNameSize)
    IN IF name = <<-1>> THEN garbage ELSE name = AeabiName

\* the offset lseek(fd, delta, SEEK_CUR) returns, -1 when it fails
SeekCur(o, delta) == IF o + delta < 0 THEN -1 ELSE o + delta

\* pos + sizeof(subsect_size) > sh_size: no room for a length field
LengthFieldCut(p, size) == p + WordSize > size

\* the test with the cursor left out of the sum
OutsideSection_NoCursor(p, L, size) == L > size

\* pos + subsect_size > sh_size: the subsection ends outside the section
OutsideSection(p, L, size) == p + L > size

\* one turn of the walker's while loop up to the call of the dispatcher:
\* the length field and its two tests, the vendor name, and for a vendor
\* other than "aeabi" the skip
SubsectionStep ==
    /\ pc = "walker"
    /\ pos < sh_size
    /\ ulebCalls' = <<>>
    /\ IF LengthFieldCut(pos, sh_size)
       THEN /\ Fail("Unexpected end of ARM attribute section")
            /\ stepReads' = {}
            /\ UNCHANGED <<off, pos, subsect_size, spos, vendor_name>>
       ELSE IF Available(file, off, WordSize) # WordSize
       THEN /\ Fail("reading subsection size")
            /\ off' = off + Available(file, off, WordSize)
            /\ stepReads' = off..(off + Available(file, off, WordSize) - 1)
            /\ UNCHANGED <<pos, subsect_size, spos, vendor_name>>
       ELSE LET L == WordAt(file, off) IN
            IF OutsideSection(pos, L, sh_size)
            THEN /\ Fail("ARM attribute subsection outside of section bounds")
                 /\ off' = off + WordSize
                 /\ stepReads' = off..(off + WordSize - 1)
                 /\ subsect_size' = L
                 /\ UNCHANGED <<pos, spos, vendor_name>>
            ELSE LET r == parse_ntbs(file, off + WordSize, WordSize, L,
                                     VendorNameSize) IN
                 /\ subsect_size' = L
                 /\ stepReads' = off..(r.off - 1)
                 /\ vendor_name' = IF r.ret # 0 THEN vendor_name
                                   ELSE CString(r.stored, VendorNameSize)
                 /\ IF r.ret # 0
                    THEN /\ Fail(r.err)
                         /\ off' = r.off
                         /\ spos' = r.pos
                         /\ UNCHANGED pos
                    ELSE \E garbage \in BOOLEAN :
                         IF IsAeabi(r.stored, garbage)
                         THEN /\ spos' = r.pos
                              /\ off' = r.off
                              /\ pc' = "aeabi"
                              /\ UNCHANGED <<pos, out, status>>
                         ELSE LET to == SeekCur(r.off, L - r.pos) IN
                              IF to # -1
                              THEN /\ Fail("skipping over unknown subsection")
                                   /\ off' = to
                                   /\ spos' = r.pos
                                   /\ UNCHANGED pos
                              ELSE /\ spos' = L
                                   /\ pos' = pos + L
                                   /\ UNCHANGED <<off, pc, out, status>>
    /\ UNCHANGED <<build, arg, opened, file, ehdr, shdrs, wchar_size, i,
                   current_pos, sh_size, writes, run, prev, unit>>

\* the return to parse with the saved offset not sought
SectionDone_NoRestore ==
    /\ pc = "walker"
    /\ ~(pos < sh_size)
    /\ i' = i + 1
    /\ pc' = "shdr"
    /\ stepReads' = {}
    /\ ulebCalls' = <<>>
    /\ UNCHANGED <<vendor_name, build, arg, opened, file, ehdr, shdrs, wchar_size,
                   current_pos, sh_size, pos, subsect_size, spos, status, out,
                   writes, run, prev, unit, off>>

\* the walker's loop ends: parse_eabi_attr_section returns 0 and parse
\* restores the saved offset and goes to the next section header
SectionDone ==
    /\ pc = "walker"
    /\ ~(pos < sh_size)
    /\ off' = current_pos
    /\ i' = i + 1
    /\ pc' = "shdr"
    /\ stepReads' = {}
    /\ ulebCalls' = <<>>
    /\ UNCHANGED <<vendor_name, build, arg, opened, file, ehdr, shdrs, wchar_size,
                   current_pos, sh_size, pos, subsect_size, spos, status, out,
                   writes, run, prev, unit>>

----------------------------------------------------------------------------
(* parse_eabi_attr_aeabi_subsection *)

\* the do-while loop over the section or symbol numbers: parse_uleb128 is
\* called until it fails or gives 0; calls collects the calls made
RECURSIVE IndexLoop(_, _, _, _, _, _)
IndexLoop(f, o, p, size, ub, calls) ==
    LET r == parse_uleb128(f, o, p, size, ub)
        cs == Append(calls, UlebCall(f, o, p, size, r))
    IN IF r.ret # 0 THEN [ret |-> r.ret, err |-> r.err, pos |-> r.pos,
                          off |-> r.off, calls |-> cs]
       ELSE IF r.result # {} THEN IndexLoop(f, r.off, r.pos, size, ub, cs)
       ELSE [ret |-> 0, err |-> "", pos |-> r.pos, off |-> r.off, calls |-> cs]

\* the entry of the dispatcher: the size test, the indicator byte and, for
\* the section and symbol indicators, the numbers that follow it
AeabiStart ==
    /\ pc = "aeabi"
    /\ IF subsect_size < 1
       THEN /\ Fail("aeabi subsection too small")
            /\ stepReads' = {}
            /\ ulebCalls' = <<>>
            /\ UNCHANGED <<off, spos>>
       ELSE LET tag == ByteAt(file, off) IN
            IF tag = -1
            THEN /\ Fail("reading aeabi subsection tag")
                 /\ stepReads' = {}
                 /\ ulebCalls' = <<>>
                 /\ UNCHANGED <<off, spos>>
            ELSE IF tag = 2 \/ tag = 3
            THEN \E ub \in UBOutcomes :
                 LET r == IndexLoop(file, off + 1, spos + 1, subsect_size, ub, <<>>) IN
                 /\ off' = r.off
                 /\ spos' = r.pos
                 /\ stepReads' = off..(r.off - 1)
                 /\ ulebCalls' = r.calls
                 /\ IF r.ret # 0 THEN Fail(r.err)
                    ELSE pc' = "tags" /\ UNCHANGED <<out, status>>
            ELSE /\ off' = off + 1
                 /\ spos' = spos + 1
                 /\ stepReads' = {off}
                 /\ ulebCalls' = <<>>
                 /\ pc' = "tags"
                 /\ UNCHANGED <<out, status>>
    /\ UNCHANGED <<vendor_name, build, arg, opened, file, ehdr, shdrs, wchar_size, i,
                   current_pos, sh_size, pos, subsect_size, writes, run, prev, unit>>

\* the tags whose value the switch reads as a string
StringTags == {BitsOf(4), BitsOf(5), BitsOf(67), BitsOf(32)}

\* the payload of a tag other than Tag_ABI_PCS_wchar_t, skipped: a string
\* for the listed tags and the odd ones above 32, a ULEB128 otherwise.
\* Returns the parser's record and the calls of parse_uleb128 made
SkipPayload(f, o, p, size, attr, ub) ==
    IF attr \in StringTags
    THEN [r |-> parse_ntbs(f, o, p, size, BufSize), calls |-> <<>>]
    ELSE IF GreaterThan(attr, 32) /\ 0 \in attr
    THEN [r |-> parse_ntbs(f, o, p, size, 0), calls |-> <<>>]
    ELSE LET u == parse_uleb128(f, o, p, size, ub)
         IN [r |-> u, calls |-> <<UlebCall(f, o, p, size, u)>>]

\* whether the patch branch is taken: wchar_size >= 0
PatchRequested(w) == w >= 0

\* case 18 after the value was printed: the test of the old value, the seek
\* one byte back and the write of wchar_size, which leaves the offset where
\* it was.  v is the record parse_uleb128 gave for the value, vstart the
\* offset its field starts at
PatchValue(f, v, vstart, w) ==
    LET refused == GreaterThan(v.result, MaxOneByte)
        at == SeekCur(v.off, -1)
    IN [events |-> (IF refused
                    THEN <<ErrorEvent("Unable to patch Tag_ABI_PCS_wchar_t: old value is too big")>>
                    ELSE <<>>)
                   \o (IF at = -1 THEN <<ErrorEvent("seeking to patch")>>
                       ELSE <<PatchedEvent(w)>>),
        ret |-> IF at = -1 THEN 1 ELSE 0,
        off |-> IF at = -1 THEN v.off ELSE at + 1,
        file |-> IF at = -1 THEN f ELSE WithByte(f, at, w % 256),
        writes |-> IF at = -1 THEN <<>>
                   ELSE <<[at |-> at, byte |-> w % 256, old |-> v.result,
                           vstart |-> vstart, vend |-> v.off]>>]

\* one turn of the dispatcher's while loop: a tag is read and its payload
\* skipped or, for Tag_ABI_PCS_wchar_t, printed and patched
TagStep ==
    /\ pc = "tags"
    /\ spos < subsect_size
    /\ \E ub \in UBOutcomes :
       LET a == parse_uleb128(file, off, spos, subsect_size, ub)
           ca == UlebCall(file, off, spos, subsect_size, a)
       IN IF a.ret # 0
          THEN /\ Fail(a.err)
               /\ off' = a.off
               /\ spos' = a.pos
               /\ stepReads' = off..(a.off - 1)
               /\ ulebCalls' = <<ca>>
               /\ UNCHANGED <<file, writes>>
          ELSE IF a.result = BitsOf(TagWchar)
          THEN LET v == parse_uleb128(file, a.off, a.pos, subsect_size, ub)
                   cv == UlebCall(file, a.off, a.pos, subsect_size, v)
               IN /\ spos' = v.pos
                  /\ stepReads' = off..(v.off - 1)
                  /\ ulebCalls' = <<ca, cv>>
                  /\ IF v.ret # 0
                     THEN Fail(v.err) /\ off' = v.off /\ UNCHANGED <<file, writes>>
                     ELSE IF PatchRequested(wchar_size)
                     THEN LET p == PatchValue(file, v, a.off, wchar_size) IN
                          /\ out' = Append(out, ValueEvent(v.result)) \o p.events
                          /\ off' = p.off
                          /\ file' = p.file
                          /\ writes' = writes \o p.writes
                          /\ IF p.ret # 0
                             THEN status' = 1 /\ pc' = "exit"
                             ELSE UNCHANGED <<status, pc>>
                     ELSE /\ out' = Append(out, ValueEvent(v.result))
                          /\ off' = v.off
                          /\ UNCHANGED <<file, writes, status, pc>>
          ELSE LET k == SkipPayload(file, a.off, a.pos, subsect_size, a.result, ub) IN
               /\ spos' = k.r.pos
               /\ off' = k.r.off
               /\ stepReads' = off..(k.r.off - 1)
               /\ ulebCalls' = <<ca>> \o k.calls
               /\ UNCHANGED <<file, writes>>
               /\ IF k.r.ret # 0 THEN Fail(k.r.err)
                  ELSE UNCHANGED <<out, status, pc>>
    /\ UNCHANGED <<vendor_name, build, arg, opened, ehdr, shdrs, wchar_size, i, current_pos,
                   sh_size, pos, subsect_size, run, prev, unit>>

\* the return to the walker with the section cursor left where it was
AeabiDone_NoAdvance ==
    /\ pc = "tags"
    /\ ~(spos < subsect_size)
    /\ pc' = "walker"
    /\ stepReads' = {}
    /\ ulebCalls' = <<>>
    /\ UNCHANGED <<vendor_name, build, arg, opened, file, ehdr, shdrs, off, wchar_size, i,
                   current_pos, sh_size, subsect_size, spos, status, out, writes,
                   run, prev, unit, pos>>

\* the dispatcher's loop ends: it returns 0 and the walker adds the
\* subsection cursor to the section cursor
AeabiDone ==
    /\ pc = "tags"
    /\ ~(spos < subsect_size)
    /\ pos' = pos + spos
    /\ pc' = "walker"
    /\ stepReads' = {}
    /\ ulebCalls' = <<>>
    /\ UNCHANGED <<vendor_name, build, arg, opened, file, ehdr, shdrs, off, wchar_size, i,
                   current_pos, sh_size, subsect_size, spos, status, out, writes,
                   run, prev, unit>>

----------------------------------------------------------------------------
(* The input files and arguments the model is run on *)

\* the most tag records in a generated aeabi subsection
MaxRecords == 2
\* the most vendor subsections in a generated attributes section
MaxSubsections == 2
\* the most entries in a generated section header table
MaxSections == 2
\* the runs of the program in a row over one file: a first run and the
\* second run the round-trip and idempotence properties speak of
RunNumbers == {1, 2}

SeqsUpTo(S, n) == UNION {[1..k -> S] : k \in 0..n}

RECURSIVE Flatten(_)
Flatten(ss) == IF ss = <<>> THEN <<>> ELSE Head(ss) \o Flatten(Tail(ss))

\* a length field
Word(n) == <<n % 256, (n \div 256) % 256, 0, 0>>

\* a vendor subsection whose length field declares d more than its size
Subsection(name, body, d) ==
    Word(WordSize + Len(name) + 1 + Len(body) + d) \o name \o <<0>> \o body

\* tag records: Tag_ABI_PCS_wchar_t with a one-byte value, a padded
\* two-byte encoding of 4, the value 128, and with no value at all; an even
\* and an odd tag above 32, Tag_CPU_name, and a tag below 32
Records ==
    { <<18, 4>>, <<18, 132, 0>>, <<18, 128, 1>>, <<18>>,
      <<40, 5>>, <<41, 97, 0>>, <<5, 97, 0>>, <<6, 1>> }

\* the indicator byte and what follows it: a file scope, and a section
\* scope with its section numbers
Indicators == { <<1>>, <<2, 5, 0>> }

GnuName == <<103, 110, 117>>

\* a well-formed ELF header over a table of n section headers
GoodEhdr(n) ==
    [complete |-> TRUE, magic_ok |-> TRUE, machine_arm |-> TRUE,
     e_shoff |-> EhdrSize, e_shentsize |-> ShdrSize, e_shnum |-> n]

AttrShdr(o, n) == [sh_type |-> "SHT_ARM_ATTRIBUTES", sh_offset |-> o, sh_size |-> n]
OtherShdr == [sh_type |-> "SHT_PROGBITS", sh_offset |-> 0, sh_size |-> 0]

\* a file of one attributes section whose header declares d more bytes than
\* the section has
OneSection(bytes, d) ==
    [ehdr |-> GoodEhdr(1),
     shdrs |-> <<AttrShdr(EhdrSize + ShdrSize, Len(bytes) + d)>>,
     data |-> bytes]

\* files of one section with one aeabi subsection of up to n records
TagFiles(n) ==
    { OneSection(<<VersionA>> \o Subsection(AeabiName, ind \o Flatten(rs), 0), 0) :
        ind \in Indicators, rs \in SeqsUpTo(Records, n) }

TagInputs == TagFiles(MaxRecords)

\* vendor subsections, well-formed and not: "aeabi" with a tag, another
\* vendor, "aeabi" with nothing after its name, declared lengths of 0 and 3,
\* a declared length 1 beyond the subsection, 2 stray bytes, and a vendor
\* name with no terminator within the declared length
SubsectionKinds ==
    { Subsection(AeabiName, <<1, 18, 4>>, 0),
      Subsection(GnuName, <<1, 9>>, 0),
      Subsection(AeabiName, <<>>, 0),
      Word(0),
      Word(3),
      Subsection(AeabiName, <<1, 18, 4>>, 1),
      <<7, 7>>,
      Word(8) \o <<97, 101, 97, 98>> }

\* files of one section of up to n subsections; and a section with another
\* version byte, an empty one, ones that declare more bytes than the file
\* has, and one whose aeabi subsection ends after a section number, with no
\* 0 to end the list
WalkerFiles(n) ==
    { OneSection(<<VersionA>> \o Flatten(ss), 0) :
        ss \in SeqsUpTo(SubsectionKinds, n) }
    \cup { OneSection(<<66>> \o Subsection(AeabiName, <<1, 18, 4>>, 0), 0),
           OneSection(<<VersionA>> \o Subsection(AeabiName, <<1, 18, 4>>, 0), -14),
           OneSection(<<>>, 0),
           OneSection(<<VersionA>> \o Subsection(AeabiName, <<1, 18, 4>>, 0), 6),
           OneSection(<<VersionA>> \o Subsection(AeabiName, <<1, 18, 4>>, 0), 2),
           OneSection(<<VersionA>> \o Subsection(AeabiName, <<2, 5>>, 0), 0) }

WalkerInputs == WalkerFiles(MaxSubsections)

\* two attributes sections, one after the other in the file
SectionA == <<VersionA>> \o Subsection(AeabiName, <<1, 18, 4>>, 0)
SectionB == <<VersionA>> \o Subsection(AeabiName, <<1, 18, 2>>, 0)

\* files with a table of up to MaxSections headers, each of another type or
\* of one of the two attributes sections; and a table shorter than e_shnum
LocatorInputs ==
    { [ehdr |-> GoodEhdr(Len(hs)),
       shdrs |-> [k \in 1..Len(hs) |->
                    IF hs[k] = "A"
                    THEN AttrShdr(EhdrSize + Len(hs) * ShdrSize, Len(SectionA))
                    ELSE IF hs[k] = "B"
                    THEN AttrShdr(EhdrSize + Len(hs) * ShdrSize + Len(SectionA),
                                  Len(SectionB))
                    ELSE OtherShdr],
       data |-> SectionA \o SectionB] :
        hs \in SeqsUpTo({"A", "B", "other"}, MaxSections) }
    \cup { [ehdr |-> GoodEhdr(2), shdrs |-> <<OtherShdr>>, data |-> <<>>] }

\* files whose second attributes section lies inside the aeabi subsection
\* of the first, so that the two walks read the same bytes one byte apart
OverlapInputs ==
    { LET inner == <<VersionA>> \o Subsection(AeabiName, body, 0)
          outer == <<VersionA>> \o Subsection(AeabiName, <<1>> \o inner, 0)
      IN [ehdr |-> GoodEhdr(2),
          shdrs |-> <<AttrShdr(EhdrSize + 2 * ShdrSize, Len(outer)),
                      AttrShdr(EhdrSize + 2 * ShdrSize + Len(outer) - Len(inner),
                               Len(inner))>>,
          data |-> outer] :
        body \in { <<0, 18, 0, 0>>, <<1, 18, 4>> } }

\* records the switch skips, one of each rule: Tag_CPU_raw_name,
\* Tag_compatibility and Tag_conformance (strings), the tags 200 and 201
\* whose numbers take two bytes, and the even tag 2^32 + 4 whose number
\* takes five
SkipRecords ==
    { <<4, 97, 0>>, <<32, 97, 0>>, <<67, 97, 0>>, <<200, 1, 5>>,
      <<201, 1, 97, 0>>, <<132, 128, 128, 128, 16, 5>> }

\* files of one aeabi subsection with a skipped record before
\* Tag_ABI_PCS_wchar_t
SkipInputs ==
    { OneSection(<<VersionA>> \o Subsection(AeabiName, <<1>> \o r \o <<18, 4>>, 0), 0) :
        r \in SkipRecords }

\* files whose ELF header parse rejects
HeaderInputs ==
    { [ehdr |-> [GoodEhdr(1) EXCEPT ![f] = v],
       shdrs |-> <<AttrShdr(EhdrSize + ShdrSize, Len(SectionA))>>,
       data |-> SectionA] :
        <<f, v>> \in { <<"complete", FALSE>>, <<"magic_ok", FALSE>>,
                       <<"machine_arm", FALSE>>, <<"e_shoff", 0>>,
                       <<"e_shentsize", 0>> } }

\* the arguments: none, one that is no integer, and integers in and out of
\* 0..0x7f
AllArgs == {NoArg, BadArg, IntArg(-129), IntArg(-1), IntArg(0), IntArg(18),
            IntArg(128)}
TagArgs == {NoArg, IntArg(0), IntArg(18)}
FewArgs == {NoArg, IntArg(0)}

InitialCases ==
    (TagInputs \X TagArgs) \cup (WalkerInputs \X FewArgs)
    \cup (LocatorInputs \X FewArgs) \cup (HeaderInputs \X {NoArg})
    \cup (OverlapInputs \X {IntArg(18)}) \cup (SkipInputs \X FewArgs)
    \cup ({OneSection(SectionA, 0)} \X AllArgs)

\* a call of one of the two readers on its own: the function, the bytes
\* at the file offset, the cursor *pos, the boundary size and the size K of
\* the result buffer (0: result is NULL); and what the call gave: its
\* return code, the cursor, *result, the buffer (-1: a byte never written)
\* and the buffer indices written
Call(fn, bytes, p, size, K) ==
    [fn |-> fn, f |-> [base |-> 0, bytes |-> bytes], pos |-> p, size |-> size,
     K |-> K, done |-> FALSE, ret |-> 0, newpos |-> p, result |-> {},
     buffer |-> <<>>, written |-> {}]

\* no call: the program is run as a whole
NoCall == Call("none", <<>>, 0, 0, 0)

\* the variables at the start of a run with argument a over file f
StartRun(a, f) ==
    /\ arg = a
    /\ file = f
    /\ opened = FALSE
    /\ off = 0
    /\ pc = "main"
    /\ wchar_size = 0
    /\ i = 0
    /\ current_pos = 0
    /\ sh_size = 0
    /\ pos = 0
    /\ subsect_size = 0
    /\ spos = 0
    /\ vendor_name = <<-1>>
    /\ status = -1
    /\ out = <<>>
    /\ writes = <<>>
    /\ stepReads = {}
    /\ ulebCalls = <<>>

Init ==
    \E c \in InitialCases, unsigned \in BOOLEAN :
       LET f == [base |-> EhdrSize + Len(c[1].shdrs) * ShdrSize,
                 bytes |-> c[1].data] IN
       /\ build = [char_unsigned |-> unsigned]
       /\ ehdr = c[1].ehdr
       /\ shdrs = c[1].shdrs
       /\ StartRun(c[2], f)
       /\ run = 1
       /\ prev = [arg |-> NoArg, before |-> f, after |-> f, out |-> <<>>,
                  status |-> 0, writes |-> <<>>]
       /\ unit = NoCall

\* the program is run again on the file the run left, with the same
\* argument or with none
Rerun ==
    /\ pc = "exit"
    /\ run + 1 \in RunNumbers
    /\ \E a \in {arg, NoArg} :
       /\ arg' = a
       /\ opened' = FALSE
       /\ off' = 0
       /\ pc' = "main"
       /\ wchar_size' = 0
       /\ i' = 0
       /\ current_pos' = 0
       /\ sh_size' = 0
       /\ pos' = 0
       /\ subsect_size' = 0
       /\ spos' = 0
       /\ vendor_name' = <<-1>>
       /\ status' = -1
       /\ out' = <<>>
       /\ writes' = <<>>
       /\ stepReads' = {}
       /\ ulebCalls' = <<>>
    /\ run' = run + 1
    /\ prev' = [arg |-> arg, before |-> prev.after, after |-> file, out |-> out,
                status |-> status, writes |-> writes]
    /\ UNCHANGED <<build, file, ehdr, shdrs, unit>>

Next ==
    \/ Main
    \/ Process
    \/ ReadShdr
    \/ ParseDone
    \/ SectionStart
    \/ SubsectionStep
    \/ SectionDone
    \/ AeabiStart
    \/ TagStep
    \/ AeabiDone
    \/ Rerun

Spec == Init /\ [][Next]_vars

\* a step of the running program (Rerun is the user's)
Step ==
    \/ Main
    \/ Process
    \/ ReadShdr
    \/ ParseDone
    \/ SectionStart
    \/ SubsectionStep
    \/ SectionDone
    \/ AeabiStart
    \/ TagStep
    \/ AeabiDone

\* before the program is started: no file, no argument
NotStarted ==
    /\ pc = "boot"
    /\ build = [char_unsigned |-> FALSE]
    /\ ehdr = GoodEhdr(0)
    /\ shdrs = <<>>
    /\ arg = NoArg
    /\ file = [base |-> EhdrSize, bytes |-> <<>>]
    /\ opened = FALSE
    /\ off = 0
    /\ wchar_size = 0
    /\ i = 0
    /\ current_pos = 0
    /\ sh_size = 0
    /\ pos = 0
    /\ subsect_size = 0
    /\ spos = 0
    /\ vendor_name = <<-1>>
    /\ status = -1
    /\ out = <<>>
    /\ writes = <<>>
    /\ stepReads = {}
    /\ ulebCalls = <<>>
    /\ run = 1
    /\ prev = [arg |-> NoArg, before |-> file, after |-> file, out |-> <<>>,
               status |-> 0, writes |-> <<>>]
    /\ unit = NoCall

\* the files and arguments of Init, with up to 2 records in a subsection
\* and up to 2 subsections in a section
LiveCases ==
    (TagFiles(2) \X TagArgs) \cup (WalkerFiles(2) \X FewArgs)
    \cup (LocatorInputs \X FewArgs) \cup (HeaderInputs \X {NoArg})
    \cup (OverlapInputs \X {IntArg(18)}) \cup (SkipInputs \X FewArgs)
    \cup ({OneSection(SectionA, 0)} \X AllArgs)

\* the program is started on one of the files with one of the arguments
Boot ==
    /\ pc = "boot"
    /\ \E c \in LiveCases, unsigned \in BOOLEAN :
       LET f == [base |-> EhdrSize + Len(c[1].shdrs) * ShdrSize,
                 bytes |-> c[1].data] IN
       /\ build' = [char_unsigned |-> unsigned]
       /\ ehdr' = c[1].ehdr
       /\ shdrs' = c[1].shdrs
       /\ arg' = c[2]
       /\ file' = f
       /\ prev' = [arg |-> NoArg, before |-> f, after |-> f, out |-> <<>>,
                   status |-> 0, writes |-> <<>>]
    /\ pc' = "main"
    /\ UNCHANGED <<opened, off, wchar_size, i, current_pos, sh_size, pos,
                   subsect_size, spos, vendor_name, status, out, writes,
                   stepReads, ulebCalls, run, unit>>

LiveNext ==
    \/ Boot
    \/ Next

\* the program is running: it has been started and has not returned.  In
\* every such state one of the steps can be taken
Running == pc \in {"main", "process", "shdr", "section", "walker", "aeabi", "tags"}

\* the program, once started, keeps running until it returns: its calls of
\* read, lseek and write on a file all return.  This is weak fairness of
\* Step, with the enabling condition of Step written as the state predicate
\* Running
StepFairness == []<>(~Running) \/ []<><<Step>>_vars

LiveSpec == NotStarted /\ [][LiveNext]_vars /\ StepFairness

----------------------------------------------------------------------------
(* parse_uleb128 and parse_ntbs called on their own *)

\* the most continuation bytes in a generated ULEB128
MaxContinuation == 9
\* the longest generated string
MaxString == 3
\* the largest generated result buffer
MaxBuffer == 3

\* ULEB128 encodings of N continuation bytes and one terminator byte whose
\* number fits 64 bits: with one 7-bit group c at byte j and the other
\* groups 0, and with every bit of every group set
UlebEncodings ==
    UNION { { [k \in 1..(N + 1) |-> (IF k <= N THEN 128 ELSE 0)
                                     + (IF k = jc[1] THEN jc[2] ELSE 0)] :
                jc \in {x \in (1..(N + 1)) \X {0, 1, 8, 127} :
                          \A b \in BitsOf(x[2]) : 7 * (x[1] - 1) + b <= 63} } :
            N \in 0..MaxContinuation }
    \cup { [k \in 1..(N + 1) |-> IF k <= N THEN 255 ELSE 127] :
             N \in {M \in 0..MaxContinuation : 7 * (M + 1) <= 64} }

\* calls of parse_uleb128 at an encoding followed by one more byte, with the
\* boundary on the encoding's last byte, right after it and one byte later
UlebCalls ==
    { Call("parse_uleb128", e \o <<5>>, p, p + Len(e) + d, 0) :
        e \in UlebEncodings, p \in {0, 4}, d \in {-1, 0, 1} }

\* calls of parse_ntbs at a string, its 0 byte and one more byte, with a
\* buffer of K bytes or none, and the boundary as above
NtbsCalls ==
    { Call("parse_ntbs", str \o <<0, 99>>, p, p + Len(str) + 1 + d, K) :
        str \in SeqsUpTo({97, 98}, MaxString), p \in {0, 4}, d \in {-1, 0, 1},
        K \in 0..MaxBuffer }

\* the result buffer with the terminator of line 99 never set
NtbsBuffer_NoTerminator(r, K) ==
    [k \in 1..K |-> IF k <= Len(r.stored) THEN r.stored[k] ELSE -1]

\* the K bytes of result after parse_ntbs returned r: the bytes the loop
\* stored, result[K-1] set to 0 on success, -1 for a byte never written
NtbsBuffer(r, K) ==
    [k \in 1..K |-> IF r.ret = 0 /\ k = K THEN 0
                    ELSE IF k <= Len(r.stored) THEN r.stored[k]
                    ELSE -1]

\* the indices of result parse_ntbs wrote to
NtbsWritten(r, K) ==
    {k - 1 : k \in 1..Len(r.stored)}
    \cup (IF r.ret = 0 /\ K > 0 THEN {K - 1} ELSE {})

\* the program's variables, which a call on its own leaves alone
progVars == <<build, arg, opened, file, ehdr, shdrs, off, pc, wchar_size, i,
              current_pos, sh_size, pos, subsect_size, spos, vendor_name,
              status, out, writes, stepReads, ulebCalls, run, prev>>

\* parse_uleb128 is called
UlebUnit ==
    /\ unit.fn = "parse_uleb128"
    /\ ~unit.done
    /\ \E ub \in UBOutcomes :
       LET r == parse_uleb128(unit.f, 0, unit.pos, unit.size, ub) IN
       unit' = [unit EXCEPT !.done = TRUE, !.ret = r.ret, !.newpos = r.pos,
                            !.result = r.result]
    /\ UNCHANGED progVars

\* parse_ntbs is called
NtbsUnit ==
    /\ unit.fn = "parse_ntbs"
    /\ ~unit.done
    /\ LET r == parse_ntbs(unit.f, 0, unit.pos, unit.size, unit.K) IN
       unit' = [unit EXCEPT !.done = TRUE, !.ret = r.ret, !.newpos = r.pos,
                            !.buffer = NtbsBuffer(r, unit.K),
                            !.written = NtbsWritten(r, unit.K)]
    /\ UNCHANGED progVars

InitPrim ==
    /\ unit \in UlebCalls \cup NtbsCalls
    /\ build = [char_unsigned |-> FALSE]
    /\ ehdr = GoodEhdr(0)
    /\ shdrs = <<>>
    /\ arg = NoArg
    /\ file = [base |-> EhdrSize, bytes |-> <<>>]
    /\ opened = FALSE
    /\ off = 0
    /\ pc = "unit"
    /\ wchar_size = 0
    /\ i = 0
    /\ current_pos = 0
    /\ sh_size = 0
    /\ pos = 0
    /\ subsect_size = 0
    /\ spos = 0
    /\ vendor_name = <<-1>>
    /\ status = -1
    /\ out = <<>>
    /\ writes = <<>>
    /\ stepReads = {}
    /\ ulebCalls = <<>>
    /\ run = 1
    /\ prev = [arg |-> NoArg, before |-> file, after |-> file, out |-> <<>>,
               status |-> 0, writes |-> <<>>]

NextPrim ==
    \/ UlebUnit
    \/ NtbsUnit

SpecPrim == InitPrim /\ [][NextPrim]_vars

----------------------------------------------------------------------------
(* Properties *)

Done == pc = "exit"

\* a replacement value the program is meant to accept
InRange(a) == a.kind = "int" /\ a.n \in 0..MaxOneByte

\* the values of Tag_ABI_PCS_wchar_t a run printed, in order
RECURSIVE Values(_)
Values(o) ==
    IF o = <<>> THEN <<>>
    ELSE IF Head(o).kind = "value" THEN <<Head(o).val>> \o Values(Tail(o))
    ELSE Values(Tail(o))

HasError(o, m) == \E k \in 1..Len(o) : o[k].kind = "error" /\ o[k].msg = m

Incident(o) == \E k \in 1..Len(o) : o[k].kind = "error"

RefusalMsg == "Unable to patch Tag_ABI_PCS_wchar_t: old value is too big"
SkipMsg == "skipping over unknown subsection"
OutsideMsg == "ARM attribute subsection outside of section bounds"
CutMsg == "Unexpected end of ARM attribute section"

\* the offsets at which two files of one length differ
Differ(f, g) ==
    {f.base + k - 1 : k \in {j \in 1..Len(f.bytes) : f.bytes[j] # g.bytes[j]}}

\* C1: in a run with a patch request, once a Tag_ABI_PCS_wchar_t value above
\* 0x7f was decoded, no write was issued for that tag, a refusal was
\* reported, and the file the run leaves is the file it was given.
C1_RefusedValueNotPatched ==
    (InRange(arg) /\ \E k \in 1..Len(Values(out)) :
                        GreaterThan(Values(out)[k], MaxOneByte))
    => /\ \A k \in 1..Len(writes) : ~GreaterThan(writes[k].old, MaxOneByte)
       /\ HasError(out, RefusalMsg)
       /\ (Done => file = prev.after)

\* C2: when a patching run with value v' in 0..0x7f over a well-formed file
\* decoded only values up to 0x7f, each from a value field of at least one
\* byte, a read-only run that follows reports v' for each of them, and the
\* patching run changed no byte other than the last byte of a value field.
C2_RoundTrip ==
    (/\ Done /\ run = 2 /\ arg.kind = "none" /\ status = 0
     /\ InRange(prev.arg) /\ prev.status = 0
     /\ Values(prev.out) # <<>>
     /\ \A k \in 1..Len(Values(prev.out)) :
           ~GreaterThan(Values(prev.out)[k], MaxOneByte)
     /\ \A k \in 1..Len(prev.writes) : prev.writes[k].vend > prev.writes[k].vstart)
    => /\ Len(Values(out)) = Len(Values(prev.out))
       /\ \A k \in 1..Len(Values(out)) : Values(out)[k] = BitsOf(prev.arg.n)
       /\ Differ(prev.before, prev.after)
             \subseteq {prev.writes[k].vend - 1 : k \in 1..Len(prev.writes)}

\* C3: when the walker has read a vendor name other than "aeabi" from a
\* subsection that lies within the section, the skip did not end in an
\* error: the run reports no failed skip.
C3_UnknownVendorSkipped ==
    (vendor_name # <<-1>> /\ vendor_name # AeabiName) => ~HasError(out, SkipMsg)

\* C4: with a replacement argument that is no integer or is outside 0..0x7f
\* the program never opens the file and ends with a non-zero status; and
\* the dispatcher is never asked to patch with a value outside 0..0x7f.
C4_ArgumentOutOfRangeRejected ==
    /\ (arg.kind = "bad" \/ (arg.kind = "int" /\ arg.n \notin 0..MaxOneByte))
       => (~opened /\ (Done => status # 0))
    /\ (pc \in {"aeabi", "tags"} /\ PatchRequested(wchar_size))
       => wchar_size \in 0..MaxOneByte

\* C5: every write of a run lands inside the value field of the matched
\* Tag_ABI_PCS_wchar_t record, and the file differs from the one the run was
\* given only at the offsets written, its size unchanged.
C5_WriteOnlyInValueField ==
    /\ \A k \in 1..Len(writes) :
          writes[k].vstart <= writes[k].at /\ writes[k].at < writes[k].vend
    /\ Len(file.bytes) = Len(prev.after.bytes)
    /\ Differ(prev.after, file) \subseteq {writes[k].at : k \in 1..Len(writes)}

\* C6: when the program has ended, its exit status is 0 exactly when the run
\* reported no failure: no I/O failure, no format violation and no refused
\* patch.
C6_ExitStatusTellsIncident ==
    Done => (status = 0 <=> ~Incident(out))

\* C7: a call of parse_uleb128 with cursor <= boundary that returns success
\* has consumed a terminating byte, and no call consumes a byte at or past
\* the boundary.
C7_UlebTruncationReported ==
    \A k \in 1..Len(ulebCalls) :
       ulebCalls[k].pos <= ulebCalls[k].size
       => /\ (ulebCalls[k].ret = 0 => ulebCalls[k].terminated)
          /\ ulebCalls[k].pos + ulebCalls[k].consumed <= ulebCalls[k].size

\* C8: a run without a replacement value issues no write and leaves the file
\* as it was given.
C8_ReadOnlyNeverWrites ==
    arg.kind = "none" => (writes = <<>> /\ file = prev.after)

\* C9: a second patching run with the same value in 0..0x7f leaves the file
\* the first run produced unchanged.
C9_SecondPatchChangesNothing ==
    (Done /\ run = 2 /\ InRange(arg) /\ prev.arg = arg) => file = prev.after

\* C10: a walker step that starts with fewer than 4 bytes left in the
\* section reads nothing, and one whose length field L gives cursor + L >
\* section size reads the 4 bytes of the length field and nothing else; both
\* end the run with an error and without a write.
C10_LengthRejectedBeforeBody ==
    [][ (pc = "walker" /\ pos < sh_size)
        => /\ LengthFieldCut(pos, sh_size)
              => (pc' = "exit" /\ status' = 1 /\ stepReads' = {}
                  /\ HasError(out', CutMsg) /\ file' = file /\ writes' = writes)
           /\ (/\ ~LengthFieldCut(pos, sh_size)
               /\ Available(file, off, WordSize) = WordSize
               /\ pos + WordAt(file, off) > sh_size)
              => (pc' = "exit" /\ status' = 1
                  /\ stepReads' = off..(off + WordSize - 1)
                  /\ HasError(out', OutsideMsg) /\ file' = file
                  /\ writes' = writes) ]_vars

\* a run ended on a length field that pointed outside the section, after
\* reading its 4 bytes
C10_Witness ==
    /\ Done /\ status = 1 /\ HasError(out, OutsideMsg)
    /\ Cardinality(stepReads) = WordSize
    /\ pos + subsect_size > sh_size

\* The encoding rules, read off the bytes of the file: the offset after the
\* ULEB128 that starts at offset o (after its first byte below 128), the
\* offset after the string that starts at o (after its first 0 byte), and
\* the number a ULEB128 of up to 3 bytes stands for
RECURSIVE RefUlebEnd(_, _)
RefUlebEnd(f, o) ==
    IF ByteAt(f, o) = -1 THEN -1
    ELSE IF ByteAt(f, o) < 128 THEN o + 1
    ELSE RefUlebEnd(f, o + 1)

RECURSIVE RefNtbsEnd(_, _)
RefNtbsEnd(f, o) ==
    IF ByteAt(f, o) = -1 THEN -1
    ELSE IF ByteAt(f, o) = 0 THEN o + 1
    ELSE RefNtbsEnd(f, o + 1)

\* the bits of the number the ULEB128 at offset o stands for: the low 7
\* bits of its k-th byte at the places 7k .. 7k+6
RECURSIVE RefUlebBits(_, _, _)
RefUlebBits(f, o, shift) ==
    LET here == {j + shift : j \in BitsOf(ByteAt(f, o) % 128)}
    IN IF ByteAt(f, o) < 128 THEN here
       ELSE here \cup RefUlebBits(f, o + 1, shift + 7)

\* whether the payload of tag id is a string by the rule: 4, 5, 32, 67 and
\* the odd ids above 32
RefIsString(id) ==
    \/ id \in {BitsOf(4), BitsOf(5), BitsOf(32), BitsOf(67)}
    \/ (GreaterThan(id, 32) /\ 0 \in id)

\* C11: a turn of the dispatcher's loop over a tag-id whose payload starts
\* within the subsection consumes the tag-id and exactly the payload its rule
\* fixes (a string for 4, 5, 32, 67 and the odd ids above 32, a ULEB128
\* otherwise), so that the next tag-id is decoded right after the payload;
\* and a turn that reads Tag_ABI_PCS_wchar_t, whatever was skipped before it,
\* prints the value its value field encodes.
C11_SkipFollowsEncodingRule ==
    [][ (/\ pc = "tags" /\ spos < subsect_size
         /\ RefUlebEnd(file, off) # -1
         /\ spos + (RefUlebEnd(file, off) - off) < subsect_size
         /\ LET idEnd == RefUlebEnd(file, off)
                payEnd == IF RefIsString(RefUlebBits(file, off, 0))
                          THEN RefNtbsEnd(file, idEnd)
                          ELSE RefUlebEnd(file, idEnd)
            IN payEnd # -1 /\ spos + (payEnd - off) <= subsect_size)
        => LET idEnd == RefUlebEnd(file, off)
               id == RefUlebBits(file, off, 0)
               payEnd == IF RefIsString(id) THEN RefNtbsEnd(file, idEnd)
                         ELSE RefUlebEnd(file, idEnd)
           IN /\ pc' = "tags"
              /\ off' = payEnd
              /\ spos' = spos + (payEnd - off)
              /\ id = BitsOf(TagWchar)
                 => (/\ Len(out') > Len(out)
                     /\ out'[Len(out) + 1].kind = "value"
                     /\ out'[Len(out) + 1].val = RefUlebBits(file, idEnd, 0))
              /\ id # BitsOf(TagWchar) => (out' = out /\ file' = file) ]_vars

\* the number of continuation bytes of the ULEB128 at the start of file f
UlebN(f) == RefUlebEnd(f, 0) - 1

\* C12: a call of parse_uleb128 at an encoding of N continuation bytes and a
\* terminator that lies within the boundary and whose number fits 64 bits
\* returns success with exactly the number encoded (the 7-bit group of byte
\* i at the places 7i .. 7i+6) and the cursor advanced by N + 1.
C12_UlebExact ==
    (/\ unit.fn = "parse_uleb128" /\ unit.done
     /\ unit.pos + UlebN(unit.f) + 1 <= unit.size
     /\ \A b \in RefUlebBits(unit.f, 0, 0) : b <= 63)
    => /\ unit.ret = 0
       /\ unit.result = RefUlebBits(unit.f, 0, 0)
       /\ unit.newpos = unit.pos + UlebN(unit.f) + 1

\* the length of the string at the start of file f, without its 0 byte
NtbsN(f) == RefNtbsEnd(f, 0) - 1

\* C13: a call of parse_ntbs at a string that ends within the boundary never
\* writes to result at an index >= K; with a buffer of K >= 1 bytes and a
\* string longer than K-1 bytes it succeeds, leaves the string's first K-1
\* bytes and a 0 in result and has consumed the string and its 0 byte; with
\* no buffer it writes nothing.
C13_NtbsTruncatesSafely ==
    (/\ unit.fn = "parse_ntbs" /\ unit.done
     /\ unit.pos + NtbsN(unit.f) + 1 <= unit.size)
    => /\ \A k \in unit.written : k < unit.K
       /\ (unit.K >= 1 /\ NtbsN(unit.f) > unit.K - 1)
          => /\ unit.ret = 0
             /\ \A k \in 1..(unit.K - 1) : unit.buffer[k] = unit.f.bytes[k]
             /\ unit.buffer[unit.K] = 0
             /\ unit.newpos = unit.pos + NtbsN(unit.f) + 1
       /\ unit.K = 0 => (unit.written = {} /\ unit.buffer = <<>>)

\* a string of 3 bytes was read into a buffer of 2
C13_Witness ==
    /\ unit.fn = "parse_ntbs" /\ unit.done /\ unit.ret = 0
    /\ unit.K = 2 /\ NtbsN(unit.f) = 3
    /\ unit.buffer = <<unit.f.bytes[1], 0>>
    /\ unit.newpos = unit.pos + 4

\* C14: while the dispatcher works on a subsection whose vendor name was
\* read as "aeabi", the subsection cursor is at most the declared length L,
\* and every byte the last step read lies at a subsection-relative position
\* below L (the subsection starts at file offset - cursor).
C14_CursorWithinSubsection ==
    (pc \in {"aeabi", "tags"} /\ vendor_name = AeabiName)
    => /\ spos <= subsect_size
       /\ \A o \in stepReads : o - (off - spos) < subsect_size

\* C15: when the dispatcher returns without error from a subsection whose
\* vendor name was read as "aeabi", the walker's cursor has advanced by
\* exactly the declared length L and the file offset is the section's
\* offset plus the cursor.
C15_WalkerAdvancesByLength ==
    [][ (pc = "tags" /\ pc' = "walker" /\ vendor_name = AeabiName)
        => /\ pos' = pos + subsect_size
           /\ off' = shdrs[i + 1].sh_offset + pos' ]_vars

\* C16: whenever parse is about to read section header i, the file offset
\* is e_shoff + i * sizeof(Elf32_Shdr) and i <= e_shnum; from a header that
\* is not of the attributes type it goes to header i + 1; from one that is,
\* it saves the offset after the header and starts the walk at sh_offset
\* with i unchanged; the walk changes neither i nor the saved offset, and
\* when it returns the saved offset is restored and i is i + 1 (each entry
\* is walked once, in table order); and the run ends with success only when
\* every header was read.
C16_LocatorVisitsEachHeaderOnce ==
    [][ /\ pc' = "shdr"
           => (off' = ehdr.e_shoff + i' * ShdrSize /\ i' <= ehdr.e_shnum)
        /\ (pc = "shdr" /\ i < ehdr.e_shnum /\ pc' # "exit")
           => IF shdrs[i + 1].sh_type = "SHT_ARM_ATTRIBUTES"
              THEN /\ pc' = "section"
                   /\ off' = shdrs[i + 1].sh_offset
                   /\ sh_size' = shdrs[i + 1].sh_size
                   /\ current_pos' = off + ShdrSize
                   /\ i' = i
              ELSE pc' = "shdr" /\ i' = i + 1
        /\ pc \in {"section", "walker", "aeabi", "tags"}
           => /\ current_pos' = current_pos
              /\ IF pc' = "shdr" THEN i' = i + 1 /\ off' = current_pos
                 ELSE i' = i
        /\ (pc = "shdr" /\ pc' = "exit" /\ status' = 0) => i = ehdr.e_shnum
      ]_vars

\* both attributes sections of a table of two were walked, in table order,
\* and parse is back at the end of the table
C16_Witness ==
    /\ pc = "shdr" /\ i = 2 /\ ehdr.e_shnum = 2
    /\ shdrs[1].sh_offset < shdrs[2].sh_offset
    /\ Values(out) = <<BitsOf(4), BitsOf(2)>>
    /\ off = ehdr.e_shoff + 2 * ShdrSize

\* C17: a dispatcher entry for a subsection whose vendor name was read as
\* "aeabi" that goes on to the tag loop has, for the indicators 2 and 3, read ULEB128 numbers the last of which was read from
\* at least one byte of the subsection and is zero, the ones before being
\* non-zero, and left the offset right after it; for any other indicator it
\* has read the indicator byte alone.
C17_IndexListEndsInZero ==
    [][ (pc = "aeabi" /\ pc' = "tags" /\ vendor_name = AeabiName)
        => IF ByteAt(file, off) \in {2, 3}
           THEN LET n == Len(ulebCalls')
                    lastAt == off' - ulebCalls'[n].consumed
                IN /\ n >= 1
                   /\ ulebCalls'[n].consumed >= 1
                   /\ ulebCalls'[n].terminated
                   /\ RefUlebBits(file, lastAt, 0) = {}
                   /\ RefUlebEnd(file, lastAt) = off'
                   /\ \A k \in 1..(n - 1) : ulebCalls'[k].consumed >= 1
                   /\ spos' - spos = off' - off
           ELSE /\ ulebCalls' = <<>>
                /\ off' = off + 1
                /\ spos' = spos + 1 ]_vars

\* C18: every run that has started ends; and every turn of the walker's loop
\* ends the run, enters the dispatcher or moves the section cursor forward,
\* every return of the dispatcher moves the section cursor forward, every
\* turn of the tag loop ends the run or moves the subsection cursor forward,
\* and the dispatcher's entry ends the run or moves the subsection cursor
\* forward with every call of the index loop but the last consuming a byte.
C18_RunEnds ==
    /\ (pc = "main") ~> (pc = "exit")
    /\ [][ /\ (pc = "walker" /\ pos < sh_size)
              => (pc' \in {"exit", "aeabi"} \/ pos' > pos)
           /\ (pc = "tags" /\ pc' = "walker") => pos' > pos
           /\ (pc = "tags" /\ spos < subsect_size)
              => (pc' = "exit" \/ spos' > spos)
           /\ pc = "aeabi"
              => \/ pc' = "exit"
                 \/ /\ spos' > spos
                    /\ \A k \in 1..(Len(ulebCalls') - 1) :
                          ulebCalls'[k].consumed >= 1 ]_vars

\* a run has ended at a subsection of declared length 0, after reading its
\* length field
C18_Witness ==
    /\ Done /\ status = 1 /\ subsect_size = 0 /\ spos = WordSize
    /\ Cardinality(stepReads) = WordSize
    /\ HasError(out, SkipMsg)

=============================================================================
